---------------------------- MODULE Spec2Model ----------------------------
(***************************************************************************)
(* A model of the semaphore flow gateway: the manifest checks              *)
(* (FlowDuplicates / NodeDuplicates), the error-object resolution          *)
(* (ResolveErrors), the gRPC listener (Handle / handler under the          *)
(* listener's RWMutex) and the flow manager's scheduler.                   *)
(*                                                                         *)
(* The module holds several specifications over one set of variables; a    *)
(* specification leaves the variables of the other parts at their idle     *)
(* values.                                                                 *)
(***************************************************************************)
EXTENDS Integers, Sequences, FiniteSets, TLC

VARIABLES
    \* ---- manifest checks (package checks)
    checkMode,      \* "off" | "flows" | "nodes": which check the run applies
    checkPc,        \* "init" | "done"
    flows,          \* the flow list handed to FlowDuplicates
    flowErr,        \* what FlowDuplicates returned
    nodeIDs,        \* the node list handed to NodeDuplicates (the nodes' IDs)
    nodeErr,        \* what NodeDuplicates returned
    \* ---- error-object resolution (package hcl)
    errPc,          \* "off" | "loop" | "done" | "panic": ResolveErrors' position
    errLen,         \* len(flows) of the call
    errCount,       \* flows the loop has taken so far
    errIn,          \* the flow of the last iteration, as it was handed in
    errOut,         \* that flow as the iteration left it
    \* ---- gRPC listener (package grpc)
    methods,        \* listener.methods, with the Handle call that built it
    services,       \* listener.services, with the Handle call that built it
    mutex,          \* listener.mutex: the sync.RWMutex
    handle,         \* the Handle call in progress: its position and locals
    handleCount,    \* Handle calls made so far
    req,            \* per handler goroutine: position and locals of its request
    stores,         \* the stores NewStore has created so far
    \* ---- flow manager (one invocation of a flow)
    deps,           \* per node: its predecessors, as the dependency analyzer left them
    nstate,         \* per node: Pending | Running | Succeeded | Failed | Skipped
    cancelled,      \* the invocation's cancellation signal
    clock,          \* events so far (a node's start or completion)
    startT,         \* per node: the clock at its start (0: not started)
    endT,           \* per node: the clock at its completion (0: not completed)
    firstErr,       \* the node whose failure was recorded first (0: none)
    rolled,         \* per node: how often its rollback was invoked
    flowPc,         \* "off" | "run" | "rollback" | "returned"
    flowResult,     \* what the invocation returned: "none" | "ok" | "error"
    cause,          \* the node whose error the invocation returned (0: none)
    rollbackFailed, \* whether a rollback has failed (which is logged, no more)
    \* ---- constructor: Specs
    definitions,    \* options.Definitions: per resolver "nil" | "ok" | "fail"
    schemas,        \* options.Schemas: per resolver "nil" | "ok" | "fail"
    failing,        \* the later stages that return an error on this input
    specsPc,        \* "off" | the stage Specs is at | "returned"
    specsIndex,     \* the resolvers the running loop has been through
    stagesRun,      \* the stages called so far, in order
    merged,         \* the resolvers whose manifest was merged into result
    specsResult,    \* what Specs returned: manifest (nil or not) and error
    \* ---- constructor: FlowManager and Listeners
    manifest,       \* manifest.Endpoints
    slots,          \* endpoints: the []*transport.Endpoint FlowManager builds
    collections,    \* Listeners' map from listener name to its endpoints
    ranged,         \* the keys the range over collections has been through
    handled,        \* per registered listener: the arguments of its Handle calls
    managerPc,      \* "off" | "build" | "listeners" | "handle" | "returned"
    managerResult   \* what FlowManager returned: endpoints (nil or not) and error

checkVars == <<checkMode, checkPc, flows, flowErr, nodeIDs, nodeErr>>

errVars == <<errPc, errLen, errCount, errIn, errOut>>

listenerVars == <<methods, services, mutex, handle, handleCount, req, stores>>

flowVars == <<deps, nstate, cancelled, clock, startT, endT, firstErr, rolled,
              flowPc, flowResult, cause, rollbackFailed>>

specsVars == <<definitions, schemas, failing, specsPc, specsIndex, stagesRun, merged,
               specsResult>>

managerVars == <<manifest, slots, collections, ranged, handled, managerPc,
                 managerResult>>

ctorVars == <<specsVars, managerVars>>

vars == <<checkMode, checkPc, flows, flowErr, nodeIDs, nodeErr,
          errPc, errLen, errCount, errIn, errOut,
          methods, services, mutex, handle, handleCount, req, stores,
          deps, nstate, cancelled, clock, startT, endT, firstErr, rolled,
          flowPc, flowResult, cause, rollbackFailed,
          definitions, schemas, failing, specsPc, specsIndex, stagesRun, merged,
          specsResult,
          manifest, slots, collections, ranged, handled, managerPc,
          managerResult>>

-----------------------------------------------------------------------------
(* Bounds *)

MaxFlows == 2
MaxFlowNodes == 2
MaxNodes == 3
MaxErrFlows == 2
MaxErrNodes == 1
MaxEndpoints == 2
MaxHandles == 2
NumNodes == 3
MaxManifest == 3
MaxResolvers == 2

-----------------------------------------------------------------------------
(* Helpers *)

RECURSIVE SeqsUpTo(_, _)
SeqsUpTo(S, n) ==
    IF n = 0 THEN {<<>>}
    ELSE LET shorter == SeqsUpTo(S, n - 1)
         IN  shorter \cup {Append(s, x) : s \in {t \in shorter : Len(t) = n - 1}, x \in S}

\* The nil error.
Nil == [kind |-> "nil", subject |-> "", flow |-> ""]

-----------------------------------------------------------------------------
(* Manifest checks: FlowDuplicates and NodeDuplicates *)

ReservedKeywords == <<"input", "error", "stack">>

\* trace.New(trace.WithMessage("duplicate flow '%s'", name))
ErrDuplicateFlow(name) == [kind |-> "duplicate flow", subject |-> name, flow |-> ""]

\* trace.New(trace.WithMessage("duplicate resource '%s' in flow '%s'", id, flow))
ErrDuplicateResource(id, flow) == [kind |-> "duplicate resource", subject |-> id, flow |-> flow]

\* trace.New(trace.WithMessage("flow with the name '%s' is a reserved keyword", id))
ErrReservedKeyword(id) == [kind |-> "reserved keyword", subject |-> id, flow |-> ""]

\* The inner loop over ReservedKeywords: some key equals the id.
RECURSIVE IsReservedFrom(_, _)
IsReservedFrom(id, k) ==
    IF k > Len(ReservedKeywords) THEN FALSE
    ELSE IF ReservedKeywords[k] = id THEN TRUE
    ELSE IsReservedFrom(id, k + 1)

\* The loop of NodeDuplicates from node i on; calls is the sync.Map's key set.
RECURSIVE NodeDuplicatesFrom(_, _, _, _)
NodeDuplicatesFrom(flow, nodes, i, calls) ==
    IF i > Len(nodes) THEN Nil
    ELSE IF nodes[i] \in calls THEN ErrDuplicateResource(nodes[i], flow)
    ELSE IF IsReservedFrom(nodes[i], 1) THEN ErrReservedKeyword(nodes[i])
    ELSE NodeDuplicatesFrom(flow, nodes, i + 1, calls \cup {nodes[i]})

\* A NodeDuplicates whose LoadOrStore never stores: no duplicate is seen.
RECURSIVE NodeDuplicatesNoStoreFrom(_, _, _)
NodeDuplicatesNoStoreFrom(flow, nodes, i) ==
    IF i > Len(nodes) THEN Nil
    ELSE IF IsReservedFrom(nodes[i], 1) THEN ErrReservedKeyword(nodes[i])
    ELSE NodeDuplicatesNoStoreFrom(flow, nodes, i + 1)

NodeDuplicatesNoStore(flow, nodes) == NodeDuplicatesNoStoreFrom(flow, nodes, 1)

\* A NodeDuplicates that compares the id with the first reserved keyword only.
RECURSIVE NodeDuplicatesFirstKeywordFrom(_, _, _, _)
NodeDuplicatesFirstKeywordFrom(flow, nodes, i, calls) ==
    IF i > Len(nodes) THEN Nil
    ELSE IF nodes[i] \in calls THEN ErrDuplicateResource(nodes[i], flow)
    ELSE IF ReservedKeywords[1] = nodes[i] THEN ErrReservedKeyword(nodes[i])
    ELSE NodeDuplicatesFirstKeywordFrom(flow, nodes, i + 1, calls \cup {nodes[i]})

NodeDuplicatesFirstKeyword(flow, nodes) == NodeDuplicatesFirstKeywordFrom(flow, nodes, 1, {})

NodeDuplicates(flow, nodes) == NodeDuplicatesFrom(flow, nodes, 1, {})

\* The loop of FlowDuplicates from flow i on; tracker is the sync.Map's key set.
RECURSIVE FlowDuplicatesFrom(_, _, _)
FlowDuplicatesFrom(list, i, tracker) ==
    IF i > Len(list) THEN Nil
    ELSE IF list[i].name \in tracker THEN ErrDuplicateFlow(list[i].name)
    ELSE LET err == NodeDuplicates(list[i].name, list[i].nodes)
         IN  IF err # Nil THEN err
             ELSE FlowDuplicatesFrom(list, i + 1, tracker \cup {list[i].name})

\* A FlowDuplicates whose tracker is never filled: no duplicate name is seen.
RECURSIVE FlowDuplicatesNoTrackerFrom(_, _)
FlowDuplicatesNoTrackerFrom(list, i) ==
    IF i > Len(list) THEN Nil
    ELSE LET err == NodeDuplicates(list[i].name, list[i].nodes)
         IN  IF err # Nil THEN err
             ELSE FlowDuplicatesNoTrackerFrom(list, i + 1)

FlowDuplicatesNoTracker(list) == FlowDuplicatesNoTrackerFrom(list, 1)

FlowDuplicates(list) == FlowDuplicatesFrom(list, 1, {})

-----------------------------------------------------------------------------
(* Error objects: DefaultOnError, MergeOnError, ResolveErrors *)

\* A *specs.Property / *specs.ParameterMap is told apart by who declared it.
NilProp == [owner |-> "nil", what |-> ""]
OwnProp(owner, what) == [owner |-> owner, what |-> what]

\* &specs.Property{Type: Int64, Label: Optional, Reference: error:status}
DefaultStatus == OwnProp("default", "error:status")
\* &specs.Property{Type: String, Label: Optional, Reference: error:message}
DefaultMessage == OwnProp("default", "error:message")
\* The err *specs.ParameterMap handed to ResolveErrors.
ErrParam == OwnProp("err", "response")

\* A *specs.OnError: the nil pointer, or an object with its four fields.
NilOnError ==
    [isNil |-> TRUE, status |-> NilProp, message |-> NilProp,
     params |-> {}, response |-> NilProp]

\* The on-error objects of the inputs: nil, any choice of status, message and
\* response declared or not, and one that declares params only.
OnErrors(owner) ==
    {NilOnError} \cup
    [isNil : {FALSE},
     status : {NilProp, OwnProp(owner, "status")},
     message : {NilProp, OwnProp(owner, "message")},
     params : {{}},
     response : {NilProp, OwnProp(owner, "response")}] \cup
    {[isNil |-> FALSE, status |-> NilProp, message |-> NilProp,
      params |-> {OwnProp(owner, "param")}, response |-> NilProp]}

\* Clone of a property, a parameter map or an on-error object copies its value.
Clone(x) == x

\* DefaultOnError as the caller sees it: the object err points to afterwards. A
\* nil err is replaced in the callee's own variable only, so the caller's
\* pointer is still nil.
DefaultOnError(err) ==
    IF err.isNil THEN err
    ELSE [err EXCEPT
            !.status = IF @ = NilProp THEN DefaultStatus ELSE @,
            !.message = IF @ = NilProp THEN DefaultMessage ELSE @]

\* MergeOnError: the left object afterwards.
MergeOnError(left, right) ==
    IF left.isNil \/ right.isNil THEN left
    ELSE [left EXCEPT
            !.message = IF @ = NilProp THEN Clone(right.message) ELSE @,
            !.status = IF @ = NilProp THEN Clone(right.status) ELSE @,
            !.params = IF @ = {} THEN {Clone(q) : q \in right.params} ELSE @,
            !.response = IF @ = NilProp THEN Clone(right.response) ELSE @]

\* The node loop of ResolveErrors.
ResolveNode(node, flowOnError) ==
    IF node.isNil THEN Clone(flowOnError)
    ELSE MergeOnError(node, flowOnError)

\* flow.GetOnError().Response on a nil on-error object: nil pointer dereference.
Faults(flow) == DefaultOnError(flow.onError).isNil

\* One iteration of ResolveErrors' loop over the flows: the flow afterwards.
ResolveFlow(flow) ==
    LET defaulted == DefaultOnError(flow.onError)
    IN  IF defaulted.isNil THEN flow
        ELSE LET onError ==
                   [defaulted EXCEPT !.response = IF @ = NilProp THEN Clone(ErrParam) ELSE @]
             IN  [onError |-> onError,
                  nodes |-> [k \in 1..Len(flow.nodes) |-> ResolveNode(flow.nodes[k], onError)]]

ErrFlowInputs == [onError : OnErrors("flow"), nodes : SeqsUpTo(OnErrors("node"), MaxErrNodes)]

NoFlow == [onError |-> NilOnError, nodes |-> <<>>]

ErrorsIdle ==
    /\ errPc = "off"
    /\ errLen = 0
    /\ errCount = 0
    /\ errIn = NoFlow
    /\ errOut = NoFlow

ErrorsInit ==
    /\ errPc = "loop"
    /\ errLen \in 0..MaxErrFlows
    /\ errCount = 0
    /\ errIn = NoFlow
    /\ errOut = NoFlow

\* for _, flow := range flows { ... }: one iteration, on a flow of the list.
ResolveErrorsStep ==
    /\ errPc = "loop"
    /\ errCount < errLen
    /\ \E flow \in ErrFlowInputs :
          /\ errIn' = flow
          /\ errOut' = ResolveFlow(flow)
          /\ errPc' = IF Faults(flow) THEN "panic" ELSE "loop"
    /\ errCount' = errCount + 1
    /\ UNCHANGED errLen
    /\ UNCHANGED <<checkVars, listenerVars, flowVars, ctorVars>>

\* The loop is over: ResolveErrors returns.
ResolveErrorsReturn ==
    /\ errPc = "loop"
    /\ errCount = errLen
    /\ errPc' = "done"
    /\ UNCHANGED <<errLen, errCount, errIn, errOut>>
    /\ UNCHANGED <<checkVars, listenerVars, flowVars, ctorVars>>

ErrorsNext == ResolveErrorsStep \/ ResolveErrorsReturn

-----------------------------------------------------------------------------
(* gRPC listener: Handle *)

\* The endpoints Handle is given: their gRPC options, their flow, whether they
\* have a request and a response, and whether ParseEndpointOptions and
\* method.NewCodec accept them.
Endpoints ==
    { [package |-> "p", service |-> "A", method |-> "Get", flow |-> "f1",
       request |-> TRUE, response |-> TRUE, valid |-> TRUE],
      [package |-> "p", service |-> "A", method |-> "Put", flow |-> "f2",
       request |-> FALSE, response |-> FALSE, valid |-> TRUE],
      [package |-> "p", service |-> "B", method |-> "Get", flow |-> "f1",
       request |-> TRUE, response |-> TRUE, valid |-> FALSE] }

EndpointLists == SeqsUpTo(Endpoints, MaxEndpoints)

\* service := fmt.Sprintf("%s.%s", options.Package, options.Service)
ServiceKey(endpoint) == <<endpoint.package, endpoint.service>>

\* name := fmt.Sprintf("%s/%s", service, options.Method)
MethodName(endpoint) == <<endpoint.package, endpoint.service, endpoint.method>>

\* m[key] = value on a Go map.
MapPut(m, key, value) == [k \in DOMAIN m \cup {key} |-> IF k = key THEN value ELSE m[k]]

EmptyMap == [k \in {} |-> 0]

\* The first endpoint of the list that ParseEndpointOptions or NewCodec refuses
\* (0: none).
FirstInvalid(endpoints) ==
    LET bad == {i \in 1..Len(endpoints) : ~endpoints[i].valid}
    IN  IF bad = {} THEN 0 ELSE CHOOSE i \in bad : \A j \in bad : i <= j

\* The loop over the endpoints: the methods map.
RECURSIVE BuildMethods(_, _, _)
BuildMethods(endpoints, i, acc) ==
    IF i > Len(endpoints) THEN acc
    ELSE BuildMethods(endpoints, i + 1, MapPut(acc, MethodName(endpoints[i]), endpoints[i]))

\* The loop over the endpoints: the services map, each service with the names
\* of its methods.
RECURSIVE BuildServices(_, _, _)
BuildServices(endpoints, i, acc) ==
    IF i > Len(endpoints) THEN acc
    ELSE LET key == ServiceKey(endpoints[i])
             had == IF key \in DOMAIN acc THEN acc[key] ELSE {}
         IN  BuildServices(endpoints, i + 1,
                           MapPut(acc, key, had \cup {MethodName(endpoints[i])}))

\* A routing table with the Handle call that built it (0: the zero value of the
\* Listener struct).
Table(call, map) == [call |-> call, map |-> map]

NoTable == Table(0, EmptyMap)

\* sync.RWMutex: the readers holding it, whether a writer has announced itself
\* (Lock called) and whether it holds the lock, and the readers that writer
\* waits for.
MutexFree == [readers |-> {}, writer |-> "none", wait |-> {}]

IdleHandle == [pc |-> "idle", call |-> 0, methods |-> EmptyMap, services |-> EmptyMap,
               result |-> "none"]

\* Handle returns an error before it reaches the lock: an endpoint is refused,
\* or a service descriptor cannot be built.
HandleFails ==
    /\ handle.pc = "idle"
    /\ handleCount < MaxHandles
    /\ \E endpoints \in EndpointLists, descriptors \in BOOLEAN :
          /\ \/ FirstInvalid(endpoints) # 0
             \/ FirstInvalid(endpoints) = 0 /\ Len(endpoints) > 0 /\ ~descriptors
          /\ handle' = [IdleHandle EXCEPT !.call = handleCount + 1, !.result = "error"]
    /\ handleCount' = handleCount + 1
    /\ UNCHANGED <<methods, services, mutex, req, stores>>
    /\ UNCHANGED <<checkVars, errVars, flowVars, ctorVars>>

\* Handle builds the methods and services maps of its endpoints.
HandleBuilds ==
    /\ handle.pc = "idle"
    /\ handleCount < MaxHandles
    /\ \E endpoints \in EndpointLists :
          /\ FirstInvalid(endpoints) = 0
          /\ handle' = [pc |-> "built", call |-> handleCount + 1,
                        methods |-> BuildMethods(endpoints, 1, EmptyMap),
                        services |-> BuildServices(endpoints, 1, EmptyMap),
                        result |-> "none"]
    /\ handleCount' = handleCount + 1
    /\ UNCHANGED <<methods, services, mutex, req, stores>>
    /\ UNCHANGED <<checkVars, errVars, flowVars, ctorVars>>

\* listener.mutex.Lock() is called: the writer announces itself; from now on
\* RLock blocks, and the writer waits for the readers that hold the lock.
HandleLock ==
    /\ handle.pc = "built"
    /\ mutex.writer = "none"
    /\ mutex' = [mutex EXCEPT !.writer = "waiting", !.wait = mutex.readers]
    /\ handle' = [handle EXCEPT !.pc = "lock"]
    /\ UNCHANGED <<methods, services, handleCount, req, stores>>
    /\ UNCHANGED <<checkVars, errVars, flowVars, ctorVars>>

\* A writer that takes the lock whatever readers hold it.
MayLockAnyway == mutex.writer = "waiting"

\* Whether the announced writer may take the lock.
MayLock == mutex.writer = "waiting" /\ mutex.readers = {}

\* listener.mutex.Lock() returns.
HandleLocked ==
    /\ handle.pc = "lock"
    /\ MayLock
    /\ mutex' = [mutex EXCEPT !.writer = "locked", !.wait = {}]
    /\ handle' = [handle EXCEPT !.pc = "locked"]
    /\ UNCHANGED <<methods, services, handleCount, req, stores>>
    /\ UNCHANGED <<checkVars, errVars, flowVars, ctorVars>>

\* listener.methods = methods
HandleSetMethods ==
    /\ handle.pc = "locked"
    /\ methods' = Table(handle.call, handle.methods)
    /\ handle' = [handle EXCEPT !.pc = "methods"]
    /\ UNCHANGED <<services, mutex, handleCount, req, stores>>
    /\ UNCHANGED <<checkVars, errVars, flowVars, ctorVars>>

\* listener.services = services
HandleSetServices ==
    /\ handle.pc = "methods"
    /\ services' = Table(handle.call, handle.services)
    /\ handle' = [handle EXCEPT !.pc = "services"]
    /\ UNCHANGED <<methods, mutex, handleCount, req, stores>>
    /\ UNCHANGED <<checkVars, errVars, flowVars, ctorVars>>

\* listener.mutex.Unlock(); return nil
HandleUnlock ==
    /\ handle.pc = "services"
    /\ mutex' = [mutex EXCEPT !.writer = "none"]
    /\ handle' = [IdleHandle EXCEPT !.call = handle.call, !.result = "nil"]
    /\ UNCHANGED <<methods, services, handleCount, req, stores>>
    /\ UNCHANGED <<checkVars, errVars, flowVars, ctorVars>>

-----------------------------------------------------------------------------
(* gRPC listener: handler *)

\* The goroutines the gRPC server runs the handler in, one per request.
Handlers == {"h1", "h2"}

\* The streams requests come in on: the method name of the stream (p.C/Nop is in
\* no table), or NoStream when grpc.MethodFromServerStream finds none.
NoStream == <<>>
RequestNames == {<<"p", "A", "Get">>, <<"p", "A", "Put">>, <<"p", "C", "Nop">>, NoStream}

\* The errors flow.Do returns: the root cause, bare or wrapped.
FlowErrors == [cause : {"handled", "unhandled"}, wrapped : BOOLEAN]

NoError == [cause |-> "", wrapped |-> FALSE]

\* transport.Unwrap(err): the root cause of the error.
Unwrap(err) == [err EXCEPT !.wrapped = FALSE]

\* method.Endpoint.Errs.Get(cause): whether an ErrorObject is registered for it.
ErrsGet(root) == root = [cause |-> "handled", wrapped |-> FALSE]

\* What an ErrorObject's status and message resolve to against a store.
Statuses == {200, 404, 999}
Messages == {"m1"}

\* CodeFromStatus: the gRPC code of an integer status.
CodeFromStatus(status) ==
    IF status >= 200 /\ status < 300 THEN "OK"
    ELSE IF status = 400 THEN "InvalidArgument"
    ELSE IF status = 401 THEN "Unauthenticated"
    ELSE IF status = 403 THEN "PermissionDenied"
    ELSE IF status = 404 THEN "NotFound"
    ELSE IF status = 408 THEN "DeadlineExceeded"
    ELSE IF status = 409 THEN "AlreadyExists"
    ELSE IF status = 429 THEN "ResourceExhausted"
    ELSE IF status = 500 THEN "Internal"
    ELSE IF status = 501 THEN "Unimplemented"
    ELSE IF status = 503 THEN "Unavailable"
    ELSE IF status = 504 THEN "DeadlineExceeded"
    ELSE "Unknown"

NoEndpoint ==
    [package |-> "", service |-> "", method |-> "", flow |-> "",
     request |-> FALSE, response |-> FALSE, valid |-> FALSE]

\* A handler goroutine with no request.
IdleRequest ==
    [pc |-> "idle", fqn |-> NoStream,
     call |-> 0, method |-> NoEndpoint,       \* method: built by Handle call `call`
     store |-> 0,                             \* the store of the request (0: none)
     steps |-> <<>>,                          \* what the handler did after RecvMsg
     header |-> FALSE, body |-> FALSE,        \* what was decoded into the store
     decodeErr |-> FALSE,                     \* Request.Codec.Unmarshal failed
     ran |-> "",                              \* the flow flow.Do was called on
     err |-> NoError,                         \* the error flow.Do returned
     object |-> FALSE, status |-> 0, message |-> "",   \* the ErrorObject, resolved
     sent |-> FALSE, trailer |-> FALSE,       \* SendMsg succeeded, SetTrailer called
     code |-> "", text |-> ""]                \* what the handler returned

\* The request with further steps in its log.
Did(request, steps) == [request EXCEPT !.steps = @ \o steps]

\* The deferred listener.mutex.RUnlock().
RUnlock(h) == [mutex EXCEPT !.readers = @ \ {h}, !.wait = @ \ {h}]

\* return grpc.Errorf(code, text) (code "OK": return nil), with the deferred
\* RUnlock.
Return(h, request, code, text) ==
    /\ req' = [req EXCEPT ![h] = [request EXCEPT !.pc = "done", !.code = code, !.text = text]]
    /\ mutex' = RUnlock(h)

\* The gRPC server calls listener.handler for an incoming stream.
HandlerStart(h) ==
    /\ req[h].pc = "idle"
    /\ \E name \in RequestNames :
          req' = [req EXCEPT ![h] = [IdleRequest EXCEPT !.pc = "rlock", !.fqn = name]]
    /\ UNCHANGED <<methods, services, mutex, handle, handleCount, stores>>
    /\ UNCHANGED <<checkVars, errVars, flowVars, ctorVars>>

\* An RLock that only a writer holding the lock keeps out.
MayRLockBeforeWriter == mutex.writer # "locked"

\* Whether RLock may return: no writer holds the lock or has announced itself.
MayRLock == mutex.writer = "none"

\* listener.mutex.RLock() returns.
HandlerRLock(h) ==
    /\ req[h].pc = "rlock"
    /\ MayRLock
    /\ mutex' = [mutex EXCEPT !.readers = @ \cup {h}]
    /\ req' = [req EXCEPT ![h].pc = "lookup"]
    /\ UNCHANGED <<methods, services, handle, handleCount, stores>>
    /\ UNCHANGED <<checkVars, errVars, flowVars, ctorVars>>

\* A lookup that takes a method it does not find for a fault of the server.
HandlerLookupAsInternal(h) ==
    /\ req[h].pc = "lookup"
    /\ IF req[h].fqn = NoStream \/ req[h].fqn \notin DOMAIN methods.map
       THEN Return(h, req[h], "Internal", "low level server stream not exists in context")
       ELSE /\ req' = [req EXCEPT ![h] = [@ EXCEPT !.pc = "recv", !.call = methods.call,
                                                   !.method = methods.map[req[h].fqn]]]
            /\ UNCHANGED mutex
    /\ UNCHANGED <<methods, services, handle, handleCount, stores>>
    /\ UNCHANGED <<checkVars, errVars, flowVars, ctorVars>>

\* grpc.MethodFromServerStream(stream); method := listener.methods[fqn[1:]]
HandlerLookup(h) ==
    /\ req[h].pc = "lookup"
    /\ IF req[h].fqn = NoStream
       THEN Return(h, req[h], "Internal", "low level server stream not exists in context")
       ELSE IF req[h].fqn \notin DOMAIN methods.map
       THEN Return(h, req[h], "Unimplemented", "unknown method")
       ELSE /\ req' = [req EXCEPT ![h] = [@ EXCEPT !.pc = "recv", !.call = methods.call,
                                                   !.method = methods.map[req[h].fqn]]]
            /\ UNCHANGED mutex
    /\ UNCHANGED <<methods, services, handle, handleCount, stores>>
    /\ UNCHANGED <<checkVars, errVars, flowVars, ctorVars>>

\* method.flow.NewStore(): a store no earlier call has returned.
NewStore(count) == count + 1

\* A handler that keeps one store for all its requests.
StoreShared(h) == 1

\* store := method.flow.NewStore()
StoreFor(h) == NewStore(stores)

\* The request as the decoding of header and body leaves it.
Decoded(request, metaOk, bodyOk) ==
    [request EXCEPT !.header = metaOk,
                    !.body = bodyOk,
                    !.decodeErr = ~bodyOk,
                    !.steps = @ \o (IF metaOk THEN <<"header">> ELSE <<>>)
                                \o (IF bodyOk THEN <<"body">> ELSE <<>>)]

\* A handler that does not look at the error of Request.Codec.Unmarshal.
HandlerReceiveIgnoringError(h) ==
    /\ req[h].pc = "recv"
    /\ \E recvOk \in BOOLEAN, metaOk \in BOOLEAN, bodyOk \in BOOLEAN :
          IF ~recvOk
          THEN /\ Return(h, req[h], "RecvMsg", "err")
               /\ UNCHANGED stores
          ELSE LET request == [req[h] EXCEPT !.store = StoreFor(h), !.steps = <<"store">>]
               IN  /\ stores' = stores + 1
                   /\ UNCHANGED mutex
                   /\ IF ~request.method.request
                      THEN req' = [req EXCEPT ![h] = [request EXCEPT !.pc = "do"]]
                      ELSE req' = [req EXCEPT ![h] =
                                     [Decoded(request, metaOk, bodyOk) EXCEPT !.pc = "do"]]
    /\ UNCHANGED <<methods, services, handle, handleCount>>
    /\ UNCHANGED <<checkVars, errVars, flowVars, ctorVars>>

\* stream.RecvMsg(req), method.flow.NewStore() and the decoding of the request
\* header and body into the store.
HandlerReceive(h) ==
    /\ req[h].pc = "recv"
    /\ \E recvOk \in BOOLEAN, metaOk \in BOOLEAN, bodyOk \in BOOLEAN :
          IF ~recvOk
          THEN /\ Return(h, req[h], "RecvMsg", "err")
               /\ UNCHANGED stores
          ELSE LET request == [req[h] EXCEPT !.store = StoreFor(h), !.steps = <<"store">>]
               IN  /\ stores' = stores + 1
                   /\ IF ~request.method.request
                      THEN /\ req' = [req EXCEPT ![h] = [request EXCEPT !.pc = "do"]]
                           /\ UNCHANGED mutex
                      ELSE IF ~bodyOk
                      THEN Return(h, Decoded(request, metaOk, FALSE),
                                  "ResourceExhausted", "invalid message body")
                      ELSE /\ req' = [req EXCEPT ![h] =
                                        [Decoded(request, metaOk, TRUE) EXCEPT !.pc = "do"]]
                           /\ UNCHANGED mutex
    /\ UNCHANGED <<methods, services, handle, handleCount>>
    /\ UNCHANGED <<checkVars, errVars, flowVars, ctorVars>>

\* A handler that does not map the error object's status to a code: every
\* registered error ends as Unknown.
FlowErrorNoMapping(h, request, err) ==
    IF ~ErrsGet(Unwrap(err))
    THEN Return(h, [request EXCEPT !.err = err], "Internal", "err.Error()")
    ELSE \E status \in Statuses, message \in Messages :
            Return(h, [request EXCEPT !.err = err, !.object = TRUE,
                                      !.status = status, !.message = message],
                   "Unknown", message)

\* What the handler returns for an error of flow.Do.
FlowError(h, request, err) ==
    IF ~ErrsGet(Unwrap(err))
    THEN Return(h, [request EXCEPT !.err = err], "Internal", "err.Error()")
    ELSE \E status \in Statuses, message \in Messages :
            Return(h, [request EXCEPT !.err = err, !.object = TRUE,
                                      !.status = status, !.message = message],
                   CodeFromStatus(status), message)

\* err = method.flow.Do(stream.Context(), store) returns.
HandlerDo(h) ==
    /\ req[h].pc = "do"
    /\ LET request == [req[h] EXCEPT !.ran = req[h].method.flow, !.steps = Append(@, "do")]
       IN  \/ /\ req' = [req EXCEPT ![h] = [request EXCEPT !.pc = "respond"]]
              /\ UNCHANGED mutex
           \/ \E err \in FlowErrors : FlowError(h, request, err)
    /\ UNCHANGED <<methods, services, handle, handleCount, stores>>
    /\ UNCHANGED <<checkVars, errVars, flowVars, ctorVars>>

\* A response whose trailer is set before the message is sent.
HandlerRespondTrailerFirst(h) ==
    /\ req[h].pc = "respond"
    /\ IF ~req[h].method.response
       THEN Return(h, req[h], "OK", "")
       ELSE \E step \in {"marshal", "read", "send", "none"} :
               IF step = "marshal"
               THEN Return(h, req[h], "ResourceExhausted", "invalid response body")
               ELSE IF step = "read"
               THEN Return(h, Did(req[h], <<"marshal">>),
                           "ResourceExhausted", "unable to read full response body")
               ELSE IF step = "send"
               THEN Return(h, [Did(req[h], <<"marshal", "read", "trailer">>)
                                  EXCEPT !.trailer = TRUE],
                           "Internal", "unknown error")
               ELSE Return(h, [Did(req[h], <<"marshal", "read", "trailer", "send">>)
                                  EXCEPT !.sent = TRUE, !.trailer = TRUE], "OK", "")
    /\ UNCHANGED <<methods, services, handle, handleCount, stores>>
    /\ UNCHANGED <<checkVars, errVars, flowVars, ctorVars>>

\* The response: marshal, read, SendMsg, SetTrailer; return nil.
HandlerRespond(h) ==
    /\ req[h].pc = "respond"
    /\ IF ~req[h].method.response
       THEN Return(h, req[h], "OK", "")
       ELSE \E step \in {"marshal", "read", "send", "none"} :
               IF step = "marshal"
               THEN Return(h, req[h], "ResourceExhausted", "invalid response body")
               ELSE IF step = "read"
               THEN Return(h, Did(req[h], <<"marshal">>),
                           "ResourceExhausted", "unable to read full response body")
               ELSE IF step = "send"
               THEN Return(h, Did(req[h], <<"marshal", "read">>), "Internal", "unknown error")
               ELSE Return(h, [Did(req[h], <<"marshal", "read", "send", "trailer">>)
                                  EXCEPT !.sent = TRUE, !.trailer = TRUE], "OK", "")
    /\ UNCHANGED <<methods, services, handle, handleCount, stores>>
    /\ UNCHANGED <<checkVars, errVars, flowVars, ctorVars>>

ListenerIdle ==
    /\ methods = NoTable
    /\ services = NoTable
    /\ mutex = MutexFree
    /\ handle = IdleHandle
    /\ handleCount = 0
    /\ req = [h \in Handlers |-> IdleRequest]
    /\ stores = 0

ListenerInit == ListenerIdle

ListenerNext ==
    \/ HandleFails
    \/ HandleBuilds
    \/ HandleLock
    \/ HandleLocked
    \/ HandleSetMethods
    \/ HandleSetServices
    \/ HandleUnlock
    \/ \E h \in Handlers : HandlerStart(h)
    \/ \E h \in Handlers : HandlerRLock(h)
    \/ \E h \in Handlers : HandlerLookup(h)
    \/ \E h \in Handlers : HandlerReceive(h)
    \/ \E h \in Handlers : HandlerDo(h)
    \/ \E h \in Handlers : HandlerRespond(h)

-----------------------------------------------------------------------------
(* Flow manager: one invocation of a flow (the scheduler of the nodes) *)

FlowNodes == 1..NumNodes

Terminal == {"Succeeded", "Failed", "Skipped"}

\* The dependency analyzer's output: predecessors come earlier in the node list.
DependencyMaps == {d \in [FlowNodes -> SUBSET FlowNodes] : \A n \in FlowNodes : d[n] \subseteq 1..(n - 1)}

FlowIdle ==
    /\ deps = [n \in FlowNodes |-> {}]
    /\ nstate = [n \in FlowNodes |-> "Pending"]
    /\ cancelled = FALSE
    /\ clock = 0
    /\ startT = [n \in FlowNodes |-> 0]
    /\ endT = [n \in FlowNodes |-> 0]
    /\ firstErr = 0
    /\ rolled = [n \in FlowNodes |-> 0]
    /\ flowPc = "off"
    /\ flowResult = "none"
    /\ cause = 0
    /\ rollbackFailed = FALSE

\* The invocation starts: a completion signal and a worker per node.
FlowInit ==
    /\ deps \in DependencyMaps
    /\ nstate = [n \in FlowNodes |-> "Pending"]
    /\ cancelled = FALSE
    /\ clock = 0
    /\ startT = [n \in FlowNodes |-> 0]
    /\ endT = [n \in FlowNodes |-> 0]
    /\ firstErr = 0
    /\ rolled = [n \in FlowNodes |-> 0]
    /\ flowPc = "run"
    /\ flowResult = "none"
    /\ cause = 0
    /\ rollbackFailed = FALSE

\* A worker goes on to execute only with every predecessor started, whatever
\* became of it.
DepsStarted(n) == \A m \in deps[n] : nstate[m] # "Pending"

\* The worker's wait is over with every predecessor completed successfully.
DepsMet(n) == \A m \in deps[n] : nstate[m] = "Succeeded"

\* The worker of node n finds its predecessors done and no cancellation: it
\* executes the node.
StartNode(n) ==
    /\ flowPc = "run"
    /\ nstate[n] = "Pending"
    /\ ~cancelled
    /\ DepsMet(n)
    /\ nstate' = [nstate EXCEPT ![n] = "Running"]
    /\ clock' = clock + 1
    /\ startT' = [startT EXCEPT ![n] = clock + 1]
    /\ UNCHANGED <<deps, cancelled, endT, firstErr, rolled, flowPc, flowResult, cause, rollbackFailed>>
    /\ UNCHANGED <<checkVars, errVars, listenerVars, ctorVars>>

\* A worker that watches its predecessors only, not the cancellation signal.
SkipDueOnFailure(n) == \E m \in deps[n] : nstate[m] = "Failed"

\* A worker that gives up its node whether cancelled or not.
SkipDueAlways(n) == TRUE

\* Whether the worker is to skip its node: cancelled, or a predecessor failed.
SkipDue(n) == cancelled \/ \E m \in deps[n] : nstate[m] = "Failed"

\* The worker of node n finds the cancellation signal (a failed predecessor has
\* asserted it): it skips the node.
SkipNode(n) ==
    /\ flowPc = "run"
    /\ nstate[n] = "Pending"
    /\ SkipDue(n)
    /\ nstate' = [nstate EXCEPT ![n] = "Skipped"]
    /\ UNCHANGED <<deps, cancelled, clock, startT, endT, firstErr, rolled, flowPc, flowResult, cause, rollbackFailed>>
    /\ UNCHANGED <<checkVars, errVars, listenerVars, ctorVars>>

\* The node's execution succeeds.
SucceedNode(n) ==
    /\ flowPc = "run"
    /\ nstate[n] = "Running"
    /\ nstate' = [nstate EXCEPT ![n] = "Succeeded"]
    /\ clock' = clock + 1
    /\ endT' = [endT EXCEPT ![n] = clock + 1]
    /\ UNCHANGED <<deps, cancelled, startT, firstErr, rolled, flowPc, flowResult, cause, rollbackFailed>>
    /\ UNCHANGED <<checkVars, errVars, listenerVars, ctorVars>>

\* A scheduler that keeps the error of the latest failure.
RecordErrorLatest(n) == n

\* The error is stored: the first recorded one stays.
RecordError(n) == IF firstErr = 0 THEN n ELSE firstErr

\* The node's execution fails: the error is stored (the first one stays), the
\* cancellation signal is asserted.
FailNode(n) ==
    /\ flowPc = "run"
    /\ nstate[n] = "Running"
    /\ nstate' = [nstate EXCEPT ![n] = "Failed"]
    /\ clock' = clock + 1
    /\ endT' = [endT EXCEPT ![n] = clock + 1]
    /\ firstErr' = RecordError(n)
    /\ cancelled' = TRUE
    /\ UNCHANGED <<deps, startT, rolled, flowPc, flowResult, cause, rollbackFailed>>
    /\ UNCHANGED <<checkVars, errVars, listenerVars, ctorVars>>

\* The caller's context is cancelled.
CallerCancels ==
    /\ flowPc = "run"
    /\ ~cancelled
    /\ cancelled' = TRUE
    /\ UNCHANGED <<deps, nstate, clock, startT, endT, firstErr, rolled, flowPc, flowResult, cause, rollbackFailed>>
    /\ UNCHANGED <<checkVars, errVars, listenerVars, ctorVars>>

AllTerminal == \A n \in FlowNodes : nstate[n] \in Terminal

AnyFailed == \E n \in FlowNodes : nstate[n] = "Failed"

\* Every worker is terminal and no node failed: the output is resolved and
\* returned.
FlowSucceeds ==
    /\ flowPc = "run"
    /\ AllTerminal
    /\ ~AnyFailed
    /\ flowPc' = "returned"
    /\ flowResult' = "ok"
    /\ UNCHANGED <<deps, nstate, cancelled, clock, startT, endT, firstErr, rolled, cause, rollbackFailed>>
    /\ UNCHANGED <<checkVars, errVars, listenerVars, ctorVars>>

\* Every worker is terminal and a node failed: the rollbacks begin.
FlowFails ==
    /\ flowPc = "run"
    /\ AllTerminal
    /\ AnyFailed
    /\ flowPc' = "rollback"
    /\ UNCHANGED <<deps, nstate, cancelled, clock, startT, endT, firstErr, rolled, flowResult, cause, rollbackFailed>>
    /\ UNCHANGED <<checkVars, errVars, listenerVars, ctorVars>>

\* The rollback of every node the invocation knows, completed or not.
ToRollBackAll == FlowNodes

\* The nodes whose rollback is due: those that completed successfully.
ToRollBack == {n \in FlowNodes : nstate[n] = "Succeeded"}

\* The rollback of node n is invoked, after those of the nodes that depend on it
\* (reverse dependency order); its own failure is logged only.
RollbackNode(n) ==
    /\ flowPc = "rollback"
    /\ n \in ToRollBack
    /\ rolled[n] = 0
    /\ \A m \in ToRollBack : n \in deps[m] => rolled[m] > 0
    /\ rolled' = [rolled EXCEPT ![n] = @ + 1]
    /\ \E ok \in BOOLEAN : rollbackFailed' = (rollbackFailed \/ ~ok)
    /\ UNCHANGED <<deps, nstate, cancelled, clock, startT, endT, firstErr, flowPc, flowResult,
                   cause>>
    /\ UNCHANGED <<checkVars, errVars, listenerVars, ctorVars>>

\* The rollbacks are over: the first recorded error is returned.
FlowReturnsError ==
    /\ flowPc = "rollback"
    /\ \A n \in ToRollBack : rolled[n] > 0
    /\ flowPc' = "returned"
    /\ flowResult' = "error"
    /\ cause' = firstErr
    /\ UNCHANGED <<deps, nstate, cancelled, clock, startT, endT, firstErr, rolled,
                   rollbackFailed>>
    /\ UNCHANGED <<checkVars, errVars, listenerVars, ctorVars>>

FlowNext ==
    \/ \E n \in FlowNodes : StartNode(n)
    \/ \E n \in FlowNodes : SkipNode(n)
    \/ \E n \in FlowNodes : SucceedNode(n)
    \/ \E n \in FlowNodes : FailNode(n)
    \/ CallerCancels
    \/ FlowSucceeds
    \/ FlowFails
    \/ \E n \in FlowNodes : RollbackNode(n)
    \/ FlowReturnsError

\* Inputs of the checks.
FlowNames == {"X", "Y"}
FlowNodeIDs == {"a", "error"}
NodeIDs == {"a", "b", "input", "error", "stack"}

FlowInputs == [name : FlowNames, nodes : SeqsUpTo(FlowNodeIDs, MaxFlowNodes)]
FlowLists == SeqsUpTo(FlowInputs, MaxFlows)
NodeLists == SeqsUpTo(NodeIDs, MaxNodes)

ChecksIdle ==
    /\ checkMode = "off"
    /\ checkPc = "init"
    /\ flows = <<>>
    /\ flowErr = Nil
    /\ nodeIDs = <<>>
    /\ nodeErr = Nil

ChecksInit ==
    /\ checkPc = "init"
    /\ flowErr = Nil
    /\ nodeErr = Nil
    /\ \/ checkMode = "flows" /\ flows \in FlowLists /\ nodeIDs = <<>>
       \/ checkMode = "nodes" /\ flows = <<>> /\ nodeIDs \in NodeLists

CallFlowDuplicates ==
    /\ checkMode = "flows"
    /\ checkPc = "init"
    /\ flowErr' = FlowDuplicates(flows)
    /\ checkPc' = "done"
    /\ UNCHANGED <<checkMode, flows, nodeIDs, nodeErr>>
    /\ UNCHANGED <<errVars, listenerVars, flowVars, ctorVars>>

CallNodeDuplicates ==
    /\ checkMode = "nodes"
    /\ checkPc = "init"
    /\ nodeErr' = NodeDuplicates("X", nodeIDs)
    /\ checkPc' = "done"
    /\ UNCHANGED <<checkMode, flows, nodeIDs, flowErr>>
    /\ UNCHANGED <<errVars, listenerVars, flowVars, ctorVars>>

ChecksNext == CallFlowDuplicates \/ CallNodeDuplicates

-----------------------------------------------------------------------------
(* Constructor: Specs *)

\* A resolver of options.Definitions or options.Schemas: nil, or one that
\* returns no error, or one that returns an error.
ResolverKinds == {"nil", "ok", "fail"}

\* The calls after the two resolver loops that return an error.
CheckedStages ==
    {"DefineManifest", "CheckManifestDuplicates", "CompareManifestTypes", "ResolveManifest"}

\* A call Specs makes: the stage and, for a resolver, its position in the list.
StageCall(stage, index) == [stage |-> stage, index |-> index]

NoStage == StageCall("", 0)

NoManifest == [returned |-> FALSE, isNil |-> TRUE, merged |-> {}, err |-> NoStage]

\* return nil, err
SpecsError(call) == [returned |-> TRUE, isNil |-> TRUE, merged |-> {}, err |-> call]

\* return result, nil
SpecsManifest(set) == [returned |-> TRUE, isNil |-> FALSE, merged |-> set, err |-> NoStage]

SpecsIdle ==
    /\ definitions = <<>>
    /\ schemas = <<>>
    /\ failing = {}
    /\ specsPc = "off"
    /\ specsIndex = 0
    /\ stagesRun = <<>>
    /\ merged = {}
    /\ specsResult = NoManifest

\* Specs is called: result := &specs.Manifest{}.
SpecsInit ==
    /\ definitions \in SeqsUpTo(ResolverKinds, MaxResolvers)
    /\ schemas \in SeqsUpTo(ResolverKinds, MaxResolvers)
    /\ failing \in SUBSET CheckedStages
    /\ specsPc = "definitions"
    /\ specsIndex = 0
    /\ stagesRun = <<>>
    /\ merged = {}
    /\ specsResult = NoManifest

\* One iteration of the loop over options.Definitions.
SpecsDefinition ==
    /\ specsPc = "definitions"
    /\ specsIndex < Len(definitions)
    /\ LET i == specsIndex + 1
           call == StageCall("definition", i)
       IN  /\ specsIndex' = i
           /\ IF definitions[i] = "nil"
              THEN UNCHANGED <<specsPc, stagesRun, merged, specsResult>>
              ELSE IF definitions[i] = "fail"
              THEN /\ stagesRun' = Append(stagesRun, call)
                   /\ specsPc' = "returned"
                   /\ specsResult' = SpecsError(call)
                   /\ UNCHANGED merged
              ELSE /\ stagesRun' = Append(stagesRun, call)
                   /\ merged' = merged \cup {i}
                   /\ UNCHANGED <<specsPc, specsResult>>
    /\ UNCHANGED <<definitions, schemas, failing>>
    /\ UNCHANGED <<checkVars, errVars, listenerVars, flowVars, managerVars>>

\* The loop over options.Definitions is over.
SpecsDefinitionsEnd ==
    /\ specsPc = "definitions"
    /\ specsIndex = Len(definitions)
    /\ specsPc' = "schemas"
    /\ specsIndex' = 0
    /\ UNCHANGED <<definitions, schemas, failing, stagesRun, merged, specsResult>>
    /\ UNCHANGED <<checkVars, errVars, listenerVars, flowVars, managerVars>>

\* One iteration of the loop over options.Schemas.
SpecsSchema ==
    /\ specsPc = "schemas"
    /\ specsIndex < Len(schemas)
    /\ LET i == specsIndex + 1
           call == StageCall("schema", i)
       IN  /\ specsIndex' = i
           /\ IF schemas[i] = "nil"
              THEN UNCHANGED <<specsPc, stagesRun, specsResult>>
              ELSE IF schemas[i] = "fail"
              THEN /\ stagesRun' = Append(stagesRun, call)
                   /\ specsPc' = "returned"
                   /\ specsResult' = SpecsError(call)
              ELSE /\ stagesRun' = Append(stagesRun, call)
                   /\ UNCHANGED <<specsPc, specsResult>>
    /\ UNCHANGED <<definitions, schemas, failing, merged>>
    /\ UNCHANGED <<checkVars, errVars, listenerVars, flowVars, managerVars>>

\* The loop over options.Schemas is over.
SpecsSchemasEnd ==
    /\ specsPc = "schemas"
    /\ specsIndex = Len(schemas)
    /\ specsPc' = "DefineManifest"
    /\ UNCHANGED <<definitions, schemas, failing, specsIndex, stagesRun, merged, specsResult>>
    /\ UNCHANGED <<checkVars, errVars, listenerVars, flowVars, managerVars>>

\* err := stage(...); if err != nil { return nil, err }
RunStage(stage, next) ==
    /\ stagesRun' = Append(stagesRun, StageCall(stage, 0))
    /\ IF stage \in failing
       THEN /\ specsPc' = "returned"
            /\ specsResult' = SpecsError(StageCall(stage, 0))
       ELSE /\ specsPc' = next
            /\ UNCHANGED specsResult
    /\ UNCHANGED <<definitions, schemas, failing, specsIndex, merged>>
    /\ UNCHANGED <<checkVars, errVars, listenerVars, flowVars, managerVars>>

\* err := strict.DefineManifest(ctx, options.Schema, result)
SpecsDefineManifest ==
    /\ specsPc = "DefineManifest"
    /\ RunStage("DefineManifest", "CheckManifestDuplicates")

\* A Specs that goes on after an error of strict.CheckManifestDuplicates.
SpecsCheckDuplicatesUnchecked ==
    /\ specsPc = "CheckManifestDuplicates"
    /\ stagesRun' = Append(stagesRun, StageCall("CheckManifestDuplicates", 0))
    /\ specsPc' = "CompareManifestTypes"
    /\ UNCHANGED <<definitions, schemas, failing, specsIndex, merged, specsResult>>
    /\ UNCHANGED <<checkVars, errVars, listenerVars, flowVars, managerVars>>

\* err = strict.CheckManifestDuplicates(ctx, result)
SpecsCheckDuplicates ==
    /\ specsPc = "CheckManifestDuplicates"
    /\ RunStage("CheckManifestDuplicates", "CompareManifestTypes")

\* err = strict.CompareManifestTypes(ctx, options.Schema, result)
SpecsCompareTypes ==
    /\ specsPc = "CompareManifestTypes"
    /\ RunStage("CompareManifestTypes", "ResolveManifest")

\* dependencies.ResolveReferences(ctx, result), which returns nothing, then
\* err = dependencies.ResolveManifest(ctx, result); return result, nil
SpecsResolve ==
    /\ specsPc = "ResolveManifest"
    /\ stagesRun' = stagesRun \o <<StageCall("ResolveReferences", 0),
                                   StageCall("ResolveManifest", 0)>>
    /\ specsPc' = "returned"
    /\ specsResult' = IF "ResolveManifest" \in failing
                      THEN SpecsError(StageCall("ResolveManifest", 0))
                      ELSE SpecsManifest(merged)
    /\ UNCHANGED <<definitions, schemas, failing, specsIndex, merged>>
    /\ UNCHANGED <<checkVars, errVars, listenerVars, flowVars, managerVars>>

SpecsNext ==
    \/ SpecsDefinition
    \/ SpecsDefinitionsEnd
    \/ SpecsSchema
    \/ SpecsSchemasEnd
    \/ SpecsDefineManifest
    \/ SpecsCheckDuplicates
    \/ SpecsCompareTypes
    \/ SpecsResolve

-----------------------------------------------------------------------------
(* Constructor: FlowManager and Listeners *)

\* options.Listeners: the registered listeners, by name.
RegisteredListeners == {"http", "grpc"}

\* The listener names endpoints carry; "udp" is not registered.
ListenerNames == {"http", "grpc", "udp"}

\* The flows of the manifest: the calls of "todo" can be constructed, a Call or
\* the Forward of "broken" returns an error.
ManifestFlows == {"todo", "broken"}

\* The flow names endpoints carry; "ghost" is no flow of the manifest.
EndpointFlows == {"todo", "broken", "ghost"}

\* manifest.Endpoints of the inputs.
ManifestEndpoints == [listener : ListenerNames, flow : EndpointFlows]

\* manifest.GetFlow(name): the flow of that name ("": nil).
GetFlow(name) == IF name \in ManifestFlows THEN name ELSE ""

\* Call(...) on the nodes of the flow and Forward(...): whether one returns an
\* error.
CallsFail(flow) == flow = "broken"

ErrCall(flow) == [kind |-> "call", subject |-> flow, flow |-> flow]

\* trace.New(trace.WithMessage("unknown listener %s", endpoint.Listener))
ErrUnknownListener(name) == [kind |-> "unknown listener", subject |-> name, flow |-> ""]

\* The error a listener's Handle returns.
ErrHandle(name) == [kind |-> "handle", subject |-> name, flow |-> ""]

\* A nil *transport.Endpoint.
NilEndpoint == [isNil |-> TRUE, ptr |-> 0, listener |-> "", manager |-> ""]

\* result := &transport.Endpoint{Listener: endpoint.Listener, ...} with
\* result.Flow = flow.NewManager(ctx, manager.GetName(), nodes); ptr tells the
\* allocations apart.
NewEndpoint(index, endpoint, manager) ==
    [isNil |-> FALSE, ptr |-> index, listener |-> endpoint.listener, manager |-> manager]

\* The loop of FlowManager over manifest.Endpoints from index on: the error it
\* returns (Nil: none) and the endpoints slice.
RECURSIVE BuildEndpoints(_, _, _)
BuildEndpoints(list, index, acc) ==
    IF index > Len(list) THEN [err |-> Nil, endpoints |-> acc]
    ELSE LET manager == GetFlow(list[index].flow)
         IN  IF manager = "" THEN BuildEndpoints(list, index + 1, acc)
             ELSE IF CallsFail(manager) THEN [err |-> ErrCall(manager), endpoints |-> acc]
             ELSE BuildEndpoints(list, index + 1,
                                 [acc EXCEPT ![index] = NewEndpoint(index, list[index], manager)])

\* options.Listeners.Get(name): whether a listener of that name is registered.
ListenersGet(name) == name \in RegisteredListeners

\* append(collections[key], endpoint)
MapAppend(m, key, value) ==
    MapPut(m, key, IF key \in DOMAIN m THEN Append(m[key], value) ELSE <<value>>)

\* A first loop that passes over an endpoint of an unknown listener.
RECURSIVE CollectSkippingUnknown(_, _, _)
CollectSkippingUnknown(list, i, acc) ==
    IF i > Len(list) THEN [err |-> Nil, collections |-> acc]
    ELSE IF list[i].isNil THEN CollectSkippingUnknown(list, i + 1, acc)
    ELSE IF ~ListenersGet(list[i].listener) THEN CollectSkippingUnknown(list, i + 1, acc)
    ELSE CollectSkippingUnknown(list, i + 1, MapAppend(acc, list[i].listener, list[i]))

\* A first loop that puts an endpoint in front of its listener's collection.
RECURSIVE CollectPrepending(_, _, _)
CollectPrepending(list, i, acc) ==
    IF i > Len(list) THEN [err |-> Nil, collections |-> acc]
    ELSE IF list[i].isNil THEN CollectPrepending(list, i + 1, acc)
    ELSE IF ~ListenersGet(list[i].listener)
    THEN [err |-> ErrUnknownListener(list[i].listener), collections |-> acc]
    ELSE LET key == list[i].listener
             had == IF key \in DOMAIN acc THEN acc[key] ELSE <<>>
         IN  CollectPrepending(list, i + 1, MapPut(acc, key, <<list[i]>> \o had))

\* The first loop of Listeners from endpoint i on: the error it returns (Nil:
\* none) and the collections map.
RECURSIVE Collect(_, _, _)
Collect(list, i, acc) ==
    IF i > Len(list) THEN [err |-> Nil, collections |-> acc]
    ELSE IF list[i].isNil THEN Collect(list, i + 1, acc)
    ELSE IF ~ListenersGet(list[i].listener)
    THEN [err |-> ErrUnknownListener(list[i].listener), collections |-> acc]
    ELSE Collect(list, i + 1, MapAppend(acc, list[i].listener, list[i]))

NoResult == [returned |-> FALSE, isNil |-> TRUE, endpoints |-> <<>>, err |-> Nil]

\* return nil, err
ReturnError(err) == [returned |-> TRUE, isNil |-> TRUE, endpoints |-> <<>>, err |-> err]

\* return endpoints, nil
ReturnEndpoints(list) == [returned |-> TRUE, isNil |-> FALSE, endpoints |-> list, err |-> Nil]

ManagerIdle ==
    /\ manifest = <<>>
    /\ slots = <<>>
    /\ collections = EmptyMap
    /\ ranged = {}
    /\ handled = [l \in RegisteredListeners |-> <<>>]
    /\ managerPc = "off"
    /\ managerResult = NoResult

\* FlowManager is called: endpoints := make([]*transport.Endpoint, len(...)).
ManagerInit ==
    /\ manifest \in SeqsUpTo(ManifestEndpoints, MaxManifest)
    /\ slots = [i \in 1..Len(manifest) |-> NilEndpoint]
    /\ collections = EmptyMap
    /\ ranged = {}
    /\ handled = [l \in RegisteredListeners |-> <<>>]
    /\ managerPc = "build"
    /\ managerResult = NoResult

\* The loop over manifest.Endpoints; an error of Call or Forward is returned.
FlowManagerBuild ==
    /\ managerPc = "build"
    /\ LET built == BuildEndpoints(manifest, 1, slots)
       IN  /\ slots' = built.endpoints
           /\ IF built.err # Nil
              THEN /\ managerPc' = "returned"
                   /\ managerResult' = ReturnError(built.err)
              ELSE /\ managerPc' = "listeners"
                   /\ UNCHANGED managerResult
    /\ UNCHANGED <<manifest, collections, ranged, handled>>
    /\ UNCHANGED <<checkVars, errVars, listenerVars, flowVars, specsVars>>

\* err := Listeners(endpoints, options): the first loop; its error is returned
\* by Listeners and then by FlowManager.
ListenersCollect ==
    /\ managerPc = "listeners"
    /\ LET collected == Collect(slots, 1, EmptyMap)
       IN  /\ collections' = collected.collections
           /\ IF collected.err # Nil
              THEN /\ managerPc' = "returned"
                   /\ managerResult' = ReturnError(collected.err)
              ELSE /\ managerPc' = "handle"
                   /\ UNCHANGED managerResult
    /\ UNCHANGED <<manifest, slots, ranged, handled>>
    /\ UNCHANGED <<checkVars, errVars, listenerVars, flowVars, specsVars>>

\* One iteration of the range over collections (in the order the map yields):
\* listener.Handle(collection, options.Codec); its error is returned.
ListenersHandle ==
    /\ managerPc = "handle"
    /\ \E key \in DOMAIN collections \ ranged, ok \in BOOLEAN :
          /\ handled' = [handled EXCEPT ![key] = Append(@, collections[key])]
          /\ ranged' = ranged \cup {key}
          /\ IF ok
             THEN UNCHANGED <<managerPc, managerResult>>
             ELSE /\ managerPc' = "returned"
                  /\ managerResult' = ReturnError(ErrHandle(key))
    /\ UNCHANGED <<manifest, slots, collections>>
    /\ UNCHANGED <<checkVars, errVars, listenerVars, flowVars, specsVars>>

\* The range is over: Listeners returns nil, FlowManager returns the endpoints.
ListenersReturn ==
    /\ managerPc = "handle"
    /\ ranged = DOMAIN collections
    /\ managerPc' = "returned"
    /\ managerResult' = ReturnEndpoints(slots)
    /\ UNCHANGED <<manifest, slots, collections, ranged, handled>>
    /\ UNCHANGED <<checkVars, errVars, listenerVars, flowVars, specsVars>>

ManagerNext ==
    \/ FlowManagerBuild
    \/ ListenersCollect
    \/ ListenersHandle
    \/ ListenersReturn

-----------------------------------------------------------------------------
(* Specifications *)

InitChecks == ChecksInit /\ ErrorsIdle /\ ListenerIdle /\ FlowIdle /\ SpecsIdle /\ ManagerIdle

SpecChecks == InitChecks /\ [][ChecksNext]_vars

InitListener == ListenerInit /\ ChecksIdle /\ ErrorsIdle /\ FlowIdle /\ SpecsIdle /\ ManagerIdle

SpecListener == InitListener /\ [][ListenerNext]_vars

InitErrors == ErrorsInit /\ ChecksIdle /\ ListenerIdle /\ FlowIdle /\ SpecsIdle /\ ManagerIdle

InitFlow == FlowInit /\ ChecksIdle /\ ErrorsIdle /\ ListenerIdle /\ SpecsIdle /\ ManagerIdle

SpecFlow == InitFlow /\ [][FlowNext]_vars

SpecErrors == InitErrors /\ [][ErrorsNext]_vars

\* Every worker is a goroutine of its own and so is the scheduler that waits for
\* them: each goes on when it can. The caller need not cancel.
FlowFairness ==
    /\ \A n \in FlowNodes :
          WF_vars(StartNode(n) \/ SkipNode(n) \/ SucceedNode(n) \/ FailNode(n))
    /\ WF_vars(FlowSucceeds \/ FlowFails \/ FlowReturnsError
                  \/ \E n \in FlowNodes : RollbackNode(n))

SpecFlowFair == InitFlow /\ [][FlowNext]_vars /\ FlowFairness

InitSpecs == SpecsInit /\ ChecksIdle /\ ErrorsIdle /\ ListenerIdle /\ FlowIdle /\ ManagerIdle

SpecSpecs == InitSpecs /\ [][SpecsNext]_vars

InitManager == ManagerInit /\ ChecksIdle /\ ErrorsIdle /\ ListenerIdle /\ FlowIdle /\ SpecsIdle

SpecManager == InitManager /\ [][ManagerNext]_vars

-----------------------------------------------------------------------------
(* Properties of the manifest checks *)

HasDuplicate(nodes) == \E i, j \in 1..Len(nodes) : i # j /\ nodes[i] = nodes[j]

ReservedSet == {"input", "error", "stack"}

HasReserved(nodes) == \E i \in 1..Len(nodes) : nodes[i] \in ReservedSet

\* The first position whose id repeats an earlier one (0: none).
FirstRepeat(nodes) ==
    LET reps == {j \in 1..Len(nodes) : \E i \in 1..(j - 1) : nodes[i] = nodes[j]}
    IN  IF reps = {} THEN 0 ELSE CHOOSE j \in reps : \A k \in reps : j <= k

\* The first position holding a reserved id (0: none).
FirstReserved(nodes) ==
    LET res == {j \in 1..Len(nodes) : nodes[j] \in ReservedSet}
    IN  IF res = {} THEN 0 ELSE CHOOSE j \in res : \A k \in res : j <= k

CleanNodes(nodes) == ~HasDuplicate(nodes) /\ ~HasReserved(nodes)

RepeatedNames(list) == {j \in 1..Len(list) : \E i \in 1..(j - 1) : list[i].name = list[j].name}

UncleanFlows(list) == {j \in 1..Len(list) : ~CleanNodes(list[j].nodes)}

Least(S) == CHOOSE j \in S : \A k \in S : j <= k

FlowsDone == checkMode = "flows" /\ checkPc = "done"
NodesDone == checkMode = "nodes" /\ checkPc = "done"

\* C7: NodeDuplicates returns an error for a node list in which two nodes have
\* the same id; FlowDuplicates fails whenever a flow has two nodes with the same
\* id and, when that flow is the first faulty thing it meets, returns exactly
\* the duplicate-resource error of that flow; an id used in two different flows
\* is accepted.
C7_UniqueNodeIDs ==
    /\ (NodesDone /\ HasDuplicate(nodeIDs)) => nodeErr # Nil
    /\ (NodesDone /\ HasDuplicate(nodeIDs) /\ ~HasReserved(nodeIDs))
          => nodeErr = ErrDuplicateResource(nodeIDs[FirstRepeat(nodeIDs)], "X")
    /\ FlowsDone =>
          /\ (\E i \in 1..Len(flows) : HasDuplicate(flows[i].nodes)) => flowErr # Nil
          /\ \A i \in 1..Len(flows) :
                ( /\ HasDuplicate(flows[i].nodes)
                  /\ ~HasReserved(flows[i].nodes)
                  /\ \A j \in 1..(i - 1) : CleanNodes(flows[j].nodes)
                  /\ \A j \in 1..i : j \notin RepeatedNames(flows) )
                => flowErr = ErrDuplicateResource(
                                 flows[i].nodes[FirstRepeat(flows[i].nodes)], flows[i].name)
          /\ ( /\ RepeatedNames(flows) = {}
               /\ UncleanFlows(flows) = {} ) => flowErr = Nil
          /\ flowErr.kind = "duplicate resource"
                => \E i \in 1..Len(flows) :
                       /\ flows[i].name = flowErr.flow
                       /\ HasDuplicate(flows[i].nodes)

\* Two flows share the id "a"; the first is accepted, the second holds "a" twice
\* and is rejected as a duplicate resource of that flow.
C7_Witness ==
    /\ FlowsDone
    /\ Len(flows) = 2
    /\ flows[1] = [name |-> "X", nodes |-> <<"a">>]
    /\ flows[2] = [name |-> "Y", nodes |-> <<"a", "a">>]
    /\ flowErr = ErrDuplicateResource("a", "Y")

\* C8 (as stated): FlowDuplicates returns "duplicate flow 'X'" whenever the list
\* holds two flows named X, and returns nil only if the names are pairwise
\* distinct and every flow passes NodeDuplicates.
C8_DuplicateFlowAlways ==
    FlowsDone =>
        /\ \A j \in RepeatedNames(flows) : flowErr = ErrDuplicateFlow(flows[j].name)
        /\ flowErr = Nil => (RepeatedNames(flows) = {} /\ UncleanFlows(flows) = {})

\* C8 (amended): FlowDuplicates returns an error whenever two flows have the
\* same name; it is "duplicate flow 'X'" for the first flow X whose name repeats
\* an earlier one unless a flow before it fails NodeDuplicates, whose error is
\* returned instead; it returns nil exactly when the names are pairwise distinct
\* and every flow passes NodeDuplicates.
C8_DuplicateFlowFirst ==
    FlowsDone =>
        /\ RepeatedNames(flows) # {} => flowErr # Nil
        /\ RepeatedNames(flows) # {} =>
              LET j == Least(RepeatedNames(flows))
              IN  IF \A i \in 1..(j - 1) : CleanNodes(flows[i].nodes)
                  THEN flowErr = ErrDuplicateFlow(flows[j].name)
                  ELSE /\ flowErr.kind \in {"duplicate resource", "reserved keyword"}
                       /\ Least(UncleanFlows(flows)) < j
        /\ flowErr = Nil <=> (RepeatedNames(flows) = {} /\ UncleanFlows(flows) = {})

\* Two flows named X, both passing NodeDuplicates: the duplicate-flow error.
C8_Witness ==
    /\ FlowsDone
    /\ Len(flows) = 2
    /\ flows[1].name = "X" /\ flows[2].name = "X"
    /\ CleanNodes(flows[1].nodes)
    /\ flowErr = ErrDuplicateFlow("X")

\* C9 (as stated): a node list that holds a reserved id anywhere is rejected with
\* the reserved-keyword error, and no other id is rejected as reserved.
C9_ReservedAlways ==
    /\ (NodesDone /\ HasReserved(nodeIDs)) => nodeErr.kind = "reserved keyword"
    /\ (NodesDone /\ nodeErr.kind = "reserved keyword") => nodeErr.subject \in ReservedSet

\* C9 (amended): a node list that holds a reserved id anywhere is rejected; the
\* error is the reserved-keyword error of the first reserved id unless an id is
\* repeated before it, and then it is the duplicate-resource error; no id outside
\* {input, error, stack} is rejected as reserved; a flow list with such a flow
\* fails FlowDuplicates.
C9_ReservedRejected ==
    /\ (NodesDone /\ HasReserved(nodeIDs)) =>
          LET r == FirstReserved(nodeIDs)
              d == FirstRepeat(nodeIDs)
          IN  /\ nodeErr # Nil
              /\ IF d = 0 \/ r < d
                 THEN nodeErr = ErrReservedKeyword(nodeIDs[r])
                 ELSE nodeErr = ErrDuplicateResource(nodeIDs[d], "X")
    /\ (NodesDone /\ nodeErr.kind = "reserved keyword") =>
          /\ nodeErr.subject \in ReservedSet
          /\ \E i \in 1..Len(nodeIDs) : nodeIDs[i] = nodeErr.subject
    /\ (NodesDone /\ ~HasReserved(nodeIDs)) => nodeErr.kind # "reserved keyword"
    /\ (FlowsDone /\ \E i \in 1..Len(flows) : HasReserved(flows[i].nodes)) => flowErr # Nil

\* The reserved id sits last, after two distinct ordinary ids.
C9_Witness ==
    /\ NodesDone
    /\ nodeIDs = <<"a", "b", "stack">>
    /\ nodeErr = ErrReservedKeyword("stack")

-----------------------------------------------------------------------------
(* Properties of the error-object resolution *)

\* The value a node's on_error field is to have: the node's own, else the
\* flow's, else the default.
Inherited(nodeOwn, flowOwn, default) ==
    IF nodeOwn # NilProp THEN nodeOwn
    ELSE IF flowOwn # NilProp THEN flowOwn
    ELSE default

NodeInherits(node, flowOnError, resolved) ==
    /\ ~resolved.isNil
    /\ resolved.status = Inherited(node.status, flowOnError.status, DefaultStatus)
    /\ resolved.message = Inherited(node.message, flowOnError.message, DefaultMessage)
    /\ resolved.response = Inherited(node.response, flowOnError.response, ErrParam)

FlowTaken == errPc \in {"loop", "done", "panic"} /\ errCount > 0

\* C10: after ResolveErrors has dealt with a flow, each node's on_error holds,
\* for status, message and response, the node's own value when the node declared
\* it, otherwise the flow's when the flow declared it, otherwise the default.
C10_Inheritance ==
    FlowTaken =>
        /\ Len(errOut.nodes) = Len(errIn.nodes)
        /\ \A k \in 1..Len(errIn.nodes) :
              NodeInherits(errIn.nodes[k], errIn.onError, errOut.nodes[k])

\* The same for the flows that come with an on_error object of their own.
InheritanceWhenFlowHasOnError ==
    (FlowTaken /\ ~errIn.onError.isNil) =>
        /\ errPc # "panic"
        /\ \A k \in 1..Len(errIn.nodes) :
              NodeInherits(errIn.nodes[k], errIn.onError, errOut.nodes[k])

-----------------------------------------------------------------------------
(* Properties of the gRPC listener *)

\* C3: when Request.Codec.Unmarshal fails, the handler has returned
\* ResourceExhausted, and it neither called flow.Do nor sent a response message.
C3_DecodeFailure ==
    \A h \in Handlers :
        req[h].decodeErr =>
            /\ req[h].pc = "done"
            /\ req[h].code = "ResourceExhausted"
            /\ req[h].ran = ""
            /\ ~req[h].sent
            /\ ~req[h].trailer

\* A request for a method with a request codec whose body did not decode.
C3_Witness ==
    \E h \in Handlers :
        /\ req[h].decodeErr
        /\ req[h].method.request
        /\ req[h].pc = "done"
        /\ req[h].code = "ResourceExhausted"

Registered(err) == err.cause = "handled"

\* C4: when flow.Do returned an error, the handler has returned Internal if no
\* ErrorObject is registered for the error's root cause, and otherwise
\* CodeFromStatus of the object's resolved status with the object's resolved
\* message; no response message was sent.
C4_FlowError ==
    \A h \in Handlers :
        req[h].err # NoError =>
            /\ req[h].pc = "done"
            /\ ~req[h].sent
            /\ ~req[h].trailer
            /\ req[h].object = Registered(req[h].err)
            /\ IF Registered(req[h].err)
               THEN /\ req[h].code = CodeFromStatus(req[h].status)
                    /\ req[h].text = req[h].message
               ELSE req[h].code = "Internal"

\* A wrapped error whose root cause has an ErrorObject, resolved to status 404.
C4_Witness ==
    \E h \in Handlers :
        /\ req[h].err = [cause |-> "handled", wrapped |-> TRUE]
        /\ req[h].status = 404
        /\ req[h].code = "NotFound"
        /\ req[h].text = "m1"
        /\ req[h].pc = "done"

\* The services map that goes with a methods map.
ServicesOf(map) ==
    [key \in {ServiceKey(map[n]) : n \in DOMAIN map} |->
        {n \in DOMAIN map : ServiceKey(map[n]) = key}]

TablesOfOneCall ==
    /\ methods.call = services.call
    /\ services.map = ServicesOf(methods.map)
    /\ \A n \in DOMAIN methods.map : MethodName(methods.map[n]) = n

\* C5: whenever a handler holds the read lock (and whenever no writer holds the
\* lock), listener.methods and listener.services are the tables of one and the
\* same Handle call, or both the initial empty ones; and a Handle call that
\* returns an error leaves both as they were.
C5_AtomicSwap ==
    /\ [](((mutex.readers # {}) \/ (mutex.writer # "locked")) => TablesOfOneCall)
    /\ [][(handle'.result = "error" /\ handle'.call # handle.call)
             => (methods' = methods /\ services' = services)]_vars

\* A handler resolved its method in the tables of the first Handle call and
\* still holds the read lock; a second Handle call has returned an error.
C5_Witness ==
    /\ handle.result = "error"
    /\ handle.call = 2
    /\ methods.call = 1
    /\ services.call = 1
    /\ DOMAIN methods.map # {}
    /\ \E h \in Handlers : h \in mutex.readers /\ req[h].pc = "do" /\ req[h].call = 1

InFlight(h) == req[h].pc \in {"recv", "do", "respond"}

\* C6: a request that has resolved its method keeps that method to its end and
\* runs that method's flow; while Handle waits for the write lock no reader is
\* let in beyond those that held the lock when Lock was called, Lock returns as
\* soon as those have released it, and from there Handle runs to its end
\* whatever the handlers do.
C6_HotSwap ==
    /\ [][\A h \in Handlers :
             InFlight(h) => /\ req'[h].call = req[h].call
                            /\ req'[h].method = req[h].method
                            /\ req'[h].pc \in {"recv", "do", "respond", "done"}]_vars
    /\ [](\A h \in Handlers :
             /\ InFlight(h) => (h \in mutex.readers /\ req[h].method.valid)
             /\ req[h].ran # "" => req[h].ran = req[h].method.flow)
    /\ [](mutex.writer = "waiting" => mutex.readers \subseteq mutex.wait)
    /\ []((handle.pc = "lock" /\ mutex.wait = {}) => ENABLED HandleLocked)
    /\ []((handle.pc = "locked") => ENABLED HandleSetMethods)
    /\ []((handle.pc = "methods") => ENABLED HandleSetServices)
    /\ []((handle.pc = "services") => ENABLED HandleUnlock)

\* Handle waits for the write lock behind a request that resolved its method in
\* the tables of the call before, while a later request waits in RLock.
C6_Witness ==
    /\ handle.pc = "lock"
    /\ handle.call = 2
    /\ \E h, g \in Handlers :
          /\ InFlight(h)
          /\ req[h].call = 1
          /\ h \in mutex.wait
          /\ req[g].pc = "rlock"

-----------------------------------------------------------------------------
(* Properties of the flow manager *)

\* C1: a node that has started did so after every one of its predecessors had
\* completed successfully (predecessor's end before the node's start), in
\* successful invocations and in all others; and nothing but its predecessors
\* and the cancellation signal holds a pending node back.
C1_DependencyHonoring ==
    /\ \A n \in FlowNodes :
          startT[n] > 0 =>
              \A m \in deps[n] :
                  /\ nstate[m] = "Succeeded"
                  /\ endT[m] > 0
                  /\ endT[m] <= startT[n]
    /\ \A n \in FlowNodes : (nstate[n] \notin {"Pending", "Skipped"}) <=> (startT[n] > 0)
    /\ \A n \in FlowNodes :
          ( /\ flowPc = "run"
            /\ nstate[n] = "Pending"
            /\ ~cancelled
            /\ \A m \in deps[n] : nstate[m] = "Succeeded" ) => ENABLED StartNode(n)

\* A successful invocation: node 3 waited for its predecessor 1, the independent
\* nodes 1 and 2 overlapped, and 3 started while 2 was still running.
C1_Witness ==
    /\ flowResult = "ok"
    /\ \A n \in FlowNodes : nstate[n] = "Succeeded"
    /\ deps[2] = {} /\ deps[3] = {1}
    /\ endT[1] < startT[3]
    /\ startT[2] < endT[1] /\ startT[1] < endT[2]
    /\ startT[3] < endT[2]

-----------------------------------------------------------------------------
(* Properties of the constructor: FlowManager and Listeners *)

ManagerReturnedNil == managerPc = "returned" /\ managerResult.err = Nil

\* The non-nil endpoints of a list that name the listener, in the list's order.
EndpointsOf(list, name) ==
    SelectSeq(list, LAMBDA e : ~e.isNil /\ e.listener = name)

\* C11: when FlowManager has returned without error, every endpoint of the
\* manifest has its transport endpoint in the returned slice, at its own
\* index, with the listener it names and the manager of the flow it names; no
\* entry of the slice is nil.
C11_EndpointsBound ==
    ManagerReturnedNil =>
        /\ ~managerResult.isNil
        /\ Len(managerResult.endpoints) = Len(manifest)
        /\ \A i \in 1..Len(manifest) :
              /\ ~managerResult.endpoints[i].isNil
              /\ managerResult.endpoints[i].listener = manifest[i].listener
              /\ managerResult.endpoints[i].manager = manifest[i].flow

\* The same for the endpoints whose flow the manifest holds; the others are
\* left nil.
EndpointsBoundWhenFlowExists ==
    ManagerReturnedNil =>
        /\ ~managerResult.isNil
        /\ Len(managerResult.endpoints) = Len(manifest)
        /\ \A i \in 1..Len(manifest) :
              IF GetFlow(manifest[i].flow) = ""
              THEN managerResult.endpoints[i] = NilEndpoint
              ELSE /\ ~managerResult.endpoints[i].isNil
                   /\ managerResult.endpoints[i].listener = manifest[i].listener
                   /\ managerResult.endpoints[i].manager = manifest[i].flow

\* The endpoints Listeners is handed that name a listener nobody registered.
UnknownListeners == {i \in 1..Len(slots) : ~slots[i].isNil /\ ~ListenersGet(slots[i].listener)}

ListenersCalled == managerPc \in {"handle", "returned"} /\ ~(managerPc = "returned" /\ managerResult.err.kind = "call")

\* C12: once Listeners has been called with an endpoint that names a listener
\* that is not registered, it has returned the unknown-listener error of the
\* first such endpoint, FlowManager has returned that error with nil endpoints,
\* and no listener has had a Handle call; and whenever the unknown-listener
\* error is returned, no Handle call was made.
C12_UnknownListenerFatal ==
    /\ (ListenersCalled /\ UnknownListeners # {}) =>
          /\ managerPc = "returned"
          /\ managerResult.isNil
          /\ managerResult.err = ErrUnknownListener(slots[Least(UnknownListeners)].listener)
          /\ \A l \in RegisteredListeners : handled[l] = <<>>
    /\ managerResult.err.kind = "unknown listener" =>
          /\ UnknownListeners # {}
          /\ \A l \in RegisteredListeners : handled[l] = <<>>
    /\ (\E l \in RegisteredListeners : handled[l] # <<>>) => UnknownListeners = {}

\* The unregistered listener is named by the last endpoint, after two endpoints
\* of registered listeners: no Handle call, the error is returned.
C12_Witness ==
    /\ managerPc = "returned"
    /\ Len(slots) = 3
    /\ slots[1].listener = "http" /\ slots[2].listener = "grpc" /\ slots[3].listener = "udp"
    /\ managerResult = ReturnError(ErrUnknownListener("udp"))
    /\ \A l \in RegisteredListeners : handled[l] = <<>>

\* C20: when Listeners has returned nil, every registered listener named by a
\* non-nil endpoint has had exactly one Handle call, with exactly the non-nil
\* endpoints that name it, in the order of the slice; a listener that no
\* endpoint names has had none; and at no time has a listener had more than one
\* Handle call or one with other endpoints than its own.
C20_HandlePerListener ==
    /\ ManagerReturnedNil =>
          \A l \in RegisteredListeners :
              LET mine == EndpointsOf(slots, l)
              IN  IF mine = <<>> THEN handled[l] = <<>> ELSE handled[l] = <<mine>>
    /\ \A l \in RegisteredListeners :
          /\ Len(handled[l]) <= 1
          /\ \A k \in 1..Len(handled[l]) :
                /\ handled[l][k] = EndpointsOf(slots, l)
                /\ handled[l][k] # <<>>

\* Three slots, the middle one nil (its flow is unknown), the others of "grpc":
\* grpc got its two endpoints in the slice's order, http got no call.
C20_Witness ==
    /\ ManagerReturnedNil
    /\ Len(slots) = 3
    /\ slots[2].isNil /\ ~slots[1].isNil /\ ~slots[3].isNil
    /\ slots[1].listener = "grpc" /\ slots[3].listener = "grpc"
    /\ handled["grpc"] = <<<<slots[1], slots[3]>>>>
    /\ handled["http"] = <<>>

-----------------------------------------------------------------------------
(* Properties of the flow manager: cancellation, node states, first error *)

\* C13: once the cancellation signal is asserted, by the caller or by a failing
\* node, it stays asserted, every worker reaches a terminal state, no pending
\* node starts executing any more, and the scheduler's wait for the workers
\* comes to its end.
C13_CancellationLiveness ==
    /\ cancelled ~> (AllTerminal /\ flowPc # "run")
    /\ [][cancelled =>
             /\ cancelled'
             /\ \A n \in FlowNodes : nstate[n] = "Pending" => nstate'[n] # "Running"]_vars
    /\ [](flowPc # "run" => AllTerminal)

\* The caller cancelled while node 1 ran: node 1 still completed, the pending
\* nodes 2 and 3 were skipped without having started, the wait is over.
C13_Witness ==
    /\ cancelled
    /\ firstErr = 0
    /\ flowPc = "returned"
    /\ nstate[1] = "Succeeded" /\ nstate[2] = "Skipped" /\ nstate[3] = "Skipped"
    /\ startT[2] = 0 /\ startT[3] = 0

NodeEdges == {<<"Pending", "Running">>, <<"Running", "Succeeded">>,
              <<"Running", "Failed">>, <<"Running", "Skipped">>}

WorkerEdges == {<<"Pending", "Running">>, <<"Running", "Succeeded">>,
                <<"Running", "Failed">>, <<"Pending", "Skipped">>}

FailedNodes == {n \in FlowNodes : nstate[n] = "Failed"}

\* C15: an invocation in which a node failed returns an error, and it is the
\* error of the failed node that completed first; once recorded the first error
\* is never replaced, not by a later failure and not by a failing rollback; an
\* invocation without a failed node returns none.
C15_FirstFailureWins ==
    /\ [](flowPc = "returned" =>
             IF FailedNodes = {}
             THEN flowResult = "ok" /\ cause = 0
             ELSE /\ flowResult = "error"
                  /\ cause \in FailedNodes
                  /\ \A m \in FailedNodes : endT[cause] <= endT[m]
                  /\ rolled[cause] = 0)
    /\ [](firstErr # 0 => (firstErr \in FailedNodes
                             /\ \A m \in FailedNodes : endT[firstErr] <= endT[m]))
    /\ [][firstErr # 0 => firstErr' = firstErr]_vars
    /\ [][cause # 0 => cause' = cause]_vars

\* Nodes 2 and then 3 failed, the rollback of node 1 failed too: the error of
\* node 2 is returned.
C15_Witness ==
    /\ flowPc = "returned"
    /\ nstate[1] = "Succeeded" /\ nstate[2] = "Failed" /\ nstate[3] = "Failed"
    /\ endT[2] < endT[3]
    /\ rolled[1] = 1 /\ rollbackFailed
    /\ cause = 2

-----------------------------------------------------------------------------
(* Properties of the constructor: Specs *)

\* The calls of the resolvers of a list that are not nil, in the list's order.
RECURSIVE ResolverCalls(_, _, _)
ResolverCalls(list, stage, i) ==
    IF i > Len(list) THEN <<>>
    ELSE IF list[i] = "nil" THEN ResolverCalls(list, stage, i + 1)
    ELSE <<StageCall(stage, i)>> \o ResolverCalls(list, stage, i + 1)

\* The fixed order of the stages for the options Specs was called with.
StageOrder ==
    ResolverCalls(definitions, "definition", 1) \o ResolverCalls(schemas, "schema", 1) \o
    <<StageCall("DefineManifest", 0), StageCall("CheckManifestDuplicates", 0),
      StageCall("CompareManifestTypes", 0), StageCall("ResolveReferences", 0),
      StageCall("ResolveManifest", 0)>>

\* Whether the call returns an error on this input.
StageFails(call) ==
    \/ call.stage = "definition" /\ definitions[call.index] = "fail"
    \/ call.stage = "schema" /\ schemas[call.index] = "fail"
    \/ call.stage \in failing

FailingStages == {k \in 1..Len(StageOrder) : StageFails(StageOrder[k])}

\* C19: the stages Specs has called are at any time the first ones of the fixed
\* order (definition resolvers, schema resolvers, DefineManifest,
\* CheckManifestDuplicates, CompareManifestTypes, dependency resolution), none
\* is called after one that returned an error; when a stage fails, Specs returns
\* the error of the first failing stage with a nil manifest; it returns a
\* manifest, merged from every definition resolver, only when no stage failed.
C19_StagedValidation ==
    specsPc # "off" =>
        /\ Len(stagesRun) <= Len(StageOrder)
        /\ \A k \in 1..Len(stagesRun) : stagesRun[k] = StageOrder[k]
        /\ \A k \in 1..(Len(stagesRun) - 1) : ~StageFails(stagesRun[k])
        /\ specsPc = "returned" =>
              IF FailingStages = {}
              THEN /\ stagesRun = StageOrder
                   /\ specsResult =
                         SpecsManifest({i \in 1..Len(definitions) : definitions[i] = "ok"})
              ELSE /\ stagesRun = SubSeq(StageOrder, 1, Least(FailingStages))
                   /\ specsResult = SpecsError(StageOrder[Least(FailingStages)])
                   /\ specsResult.isNil
        /\ specsPc # "returned" => specsResult = NoManifest

\* The first resolver is nil, the second is merged; CheckManifestDuplicates
\* fails, and so would ResolveManifest: neither CompareManifestTypes nor the
\* dependency resolution runs, the error of CheckManifestDuplicates is returned.
C19_Witness ==
    /\ specsPc = "returned"
    /\ definitions = <<"nil", "ok">>
    /\ schemas = <<"ok">>
    /\ failing = {"CheckManifestDuplicates", "ResolveManifest"}
    /\ stagesRun = <<StageCall("definition", 2), StageCall("schema", 1),
                     StageCall("DefineManifest", 0), StageCall("CheckManifestDuplicates", 0)>>
    /\ specsResult = SpecsError(StageCall("CheckManifestDuplicates", 0))

-----------------------------------------------------------------------------
(* Properties of the gRPC listener: stores and the steps of a request *)

\* C16: every request whose message was received has a store of its own,
\* created for it before anything is decoded or run: the store is one that
\* NewStore had not returned before, it stays the request's store, and no two
\* requests, running or done, for the same method or not, have the same store.
C16_StorePerInvocation ==
    /\ [](\A h \in Handlers :
             /\ req[h].store # 0 => \A g \in Handlers \ {h} : req[g].store # req[h].store
             /\ req[h].store <= stores
             /\ (req[h].steps # <<>> \/ req[h].ran # "" \/ req[h].header \/ req[h].body
                  \/ req[h].decodeErr \/ req[h].pc \in {"do", "respond"})
                   => (req[h].store # 0 /\ req[h].steps[1] = "store"))
    /\ [][\A h \in Handlers :
             req'[h].store # req[h].store =>
                 /\ req[h].store = 0
                 /\ req[h].pc = "recv"
                 /\ req'[h].store > stores
                 /\ stores' = req'[h].store]_vars

\* Two requests for the same method are in flow.Do at the same time, each with
\* its own store.
C16_Witness ==
    /\ req["h1"].pc = "do" /\ req["h2"].pc = "do"
    /\ req["h1"].fqn = <<"p", "A", "Get">> /\ req["h2"].fqn = <<"p", "A", "Get">>
    /\ req["h1"].store = 2 /\ req["h2"].store = 1

\* The first position of a step in the log (0: not in it).
StepAt(steps, x) ==
    LET at == {i \in 1..Len(steps) : steps[i] = x}
    IN  IF at = {} THEN 0 ELSE CHOOSE i \in at : \A j \in at : i <= j

Times(steps, x) == Cardinality({i \in 1..Len(steps) : steps[i] = x})

Before(steps, x, y) ==
    StepAt(steps, x) # 0 /\ StepAt(steps, y) # 0 /\ StepAt(steps, x) < StepAt(steps, y)

\* What holds of the response whatever the request was.
ResponseSteps(r) ==
    /\ StepAt(r.steps, "marshal") # 0 =>
          (r.ran # "" /\ r.err = NoError /\ Before(r.steps, "do", "marshal"))
    /\ r.sent <=> StepAt(r.steps, "send") # 0
    /\ r.sent => (r.err = NoError /\ r.ran # "" /\ Before(r.steps, "marshal", "send"))
    /\ r.trailer <=> StepAt(r.steps, "trailer") # 0
    /\ r.trailer => (r.sent /\ Before(r.steps, "send", "trailer"))
    /\ r.err # NoError => (StepAt(r.steps, "marshal") = 0 /\ ~r.sent /\ ~r.trailer)

\* C18 (as stated): the flow is executed at most once and only after the
\* request header and then the request body have been decoded into the store;
\* a response is marshalled and sent only if the flow returned no error, the
\* trailer is set only after the message was sent.
C18_DecodedBeforeFlow ==
    \A h \in Handlers :
        /\ Times(req[h].steps, "do") <= 1
        /\ req[h].ran # "" =>
              /\ req[h].header /\ req[h].body
              /\ Before(req[h].steps, "header", "body")
              /\ Before(req[h].steps, "body", "do")
        /\ ResponseSteps(req[h])

\* C18 (amended): the flow is executed at most once, after the store was
\* created; when the method has a request, only after the request body has been
\* decoded into the store, and after the header where the stream's context
\* carries metadata (header before body); when the method has no request,
\* nothing is decoded; a response is marshalled and sent only if the flow
\* returned no error, the trailer is set only after the message was sent.
C18_RequestSteps ==
    \A h \in Handlers :
        /\ Times(req[h].steps, "do") <= 1
        /\ req[h].ran # "" <=> StepAt(req[h].steps, "do") # 0
        /\ req[h].ran # "" =>
              /\ Before(req[h].steps, "store", "do")
              /\ IF req[h].method.request
                 THEN /\ req[h].body /\ ~req[h].decodeErr
                      /\ Before(req[h].steps, "body", "do")
                      /\ req[h].header => Before(req[h].steps, "header", "body")
                 ELSE ~req[h].header /\ ~req[h].body
        /\ req[h].header <=> StepAt(req[h].steps, "header") # 0
        /\ req[h].body <=> StepAt(req[h].steps, "body") # 0
        /\ req[h].sent => req[h].method.response
        /\ ResponseSteps(req[h])

\* A request with metadata and a body: every step in its order.
C18_Witness ==
    \E h \in Handlers :
        /\ req[h].pc = "done"
        /\ req[h].code = "OK"
        /\ req[h].steps = <<"store", "header", "body", "do", "marshal", "read", "send", "trailer">>

\* A request for a method without a request: the flow runs, nothing was decoded.
FlowWithoutRequest ==
    \E h \in Handlers :
        /\ req[h].ran # ""
        /\ ~req[h].method.request
        /\ req[h].steps = <<"store", "do">>

-----------------------------------------------------------------------------
(* Properties of the gRPC listener: unknown methods *)

\* The handler is at its lookup with a method name the methods table lacks.
UnknownMethod(h) ==
    /\ req[h].pc = "lookup"
    /\ req[h].fqn # NoStream
    /\ req[h].fqn \notin DOMAIN methods.map

\* C21: the step a handler takes from its lookup, with a method name that is not
\* in the methods table as it is then, ends the request with Unimplemented and
\* leaves listener.methods and listener.services as they are; a request that
\* ended with Unimplemented has received no message, has no store, has decoded
\* and sent nothing and has run no flow; no request for a name the table holds
\* ends with Unimplemented.
C21_UnknownMethod ==
    /\ [][\A h \in Handlers :
             (UnknownMethod(h) /\ req'[h] # req[h]) =>
                 /\ req'[h].pc = "done"
                 /\ req'[h].code = "Unimplemented"
                 /\ req'[h].store = 0
                 /\ req'[h].steps = <<>>
                 /\ req'[h].ran = ""
                 /\ methods' = methods
                 /\ services' = services
                 /\ stores' = stores
                 /\ h \notin mutex'.readers]_vars
    /\ [][\A h \in Handlers :
             (req[h].code # "Unimplemented" /\ req'[h].code = "Unimplemented")
                 => UnknownMethod(h)]_vars
    /\ [](\A h \in Handlers :
             req[h].code = "Unimplemented" =>
                 /\ req[h].pc = "done"
                 /\ req[h].fqn # NoStream
                 /\ req[h].method = NoEndpoint
                 /\ req[h].store = 0
                 /\ req[h].steps = <<>>
                 /\ ~req[h].header /\ ~req[h].body /\ ~req[h].decodeErr
                 /\ req[h].ran = ""
                 /\ req[h].err = NoError
                 /\ ~req[h].sent /\ ~req[h].trailer)

\* The tables of the first Handle call hold p.A/Get; a request for p.C/Nop has
\* ended with Unimplemented while a request for p.A/Get runs its flow.
C21_Witness ==
    /\ methods.call = 1
    /\ <<"p", "A", "Get">> \in DOMAIN methods.map
    /\ \E h, g \in Handlers :
          /\ req[h].fqn = <<"p", "C", "Nop">>
          /\ req[h].pc = "done"
          /\ req[h].code = "Unimplemented"
          /\ req[g].fqn = <<"p", "A", "Get">>
          /\ req[g].pc = "do"

-----------------------------------------------------------------------------
(* Properties of the error-object resolution: totality *)

Resolved(onError) ==
    /\ ~onError.isNil
    /\ onError.status # NilProp
    /\ onError.message # NilProp

\* C22: ResolveErrors never faults, whatever the flows declare; after it has
\* dealt with a flow, the flow has an on_error with status and message set and
\* every node of the flow has a non-nil on_error with status and message set.
C22_Total ==
    /\ errPc # "panic"
    /\ FlowTaken =>
          /\ Resolved(errOut.onError)
          /\ Len(errOut.nodes) = Len(errIn.nodes)
          /\ \A k \in 1..Len(errOut.nodes) : Resolved(errOut.nodes[k])

\* The same for the flows that come with an on_error object of their own.
TotalWhenFlowHasOnError ==
    (FlowTaken /\ ~errIn.onError.isNil) =>
        /\ errPc # "panic"
        /\ Resolved(errOut.onError)
        /\ errOut.onError.response # NilProp
        /\ Len(errOut.nodes) = Len(errIn.nodes)
        /\ \A k \in 1..Len(errOut.nodes) : Resolved(errOut.nodes[k])

=============================================================================
